---- MODULE Spec2Model ----
(***************************************************************************)
(* ArrayToolbox (src/src/ArrayToolbox.js): Core.intersection,              *)
(* Core.modalValues, Filter.unique and the Reduce accumulators             *)
(* findAllIndexes, firstOrDefaultTo, lastOrDefaultTo, singleOrDefaultTo,   *)
(* driven by Array.prototype.filter / reduce / reduceRight.                *)
(*                                                                         *)
(* Elements are JavaScript strings (the ComparatorCallback of the source   *)
(* takes strings).  JavaScript indexes are 0-based: the element at         *)
(* JavaScript index n of an array A is A[n + 1] here.                      *)
(***************************************************************************)
EXTENDS Integers, Sequences, FiniteSets, TLC

VARIABLES pc, op, array, other, cmp, ser, needle, seed, dir, n, acc, calls, ret, err

vars == <<pc, op, array, other, cmp, ser, needle, seed, dir, n, acc, calls, ret, err>>

----------------------------------------------------------------------------
(* Bounds of the model *)

NumWords == 3

MaxLen == 4

MaxPairLen == 3

MaxFoldLen == 3

----------------------------------------------------------------------------
(* The universe of elements *)

\* The strings elements are drawn from, the first NumWords of them.
WordPool == <<"a", "A", "constructor", "b", "B", "c">>

Words == {WordPool[i] : i \in 1..NumWords}

\* String(null), what a comparator built on Intl.Collator sees for a null seed.
NULL == "null"

\* Collation order of every string of the model.
Collation == <<"a", "A", "b", "B", "c", "constructor", "null">>

Rank(w) == CHOOSE i \in 1..Len(Collation) : Collation[i] = w

\* Base letter of a string (what Intl.Collator compares under sensitivity 'base').
BaseOf(w) == IF w = "A" THEN "a" ELSE IF w = "B" THEN "b" ELSE w

SeqsUpTo(S, k) == UNION {[1..m -> S] : m \in 0..k}

Comparators == {"collator", "base"}

Serializers == {"JSON.stringify", "String"}

----------------------------------------------------------------------------
(* Values a JavaScript variable of the model holds *)

NoValue == [kind |-> "none", value |-> "", items |-> <<>>]

Val(v) == [kind |-> "value", value |-> v, items |-> <<>>]

Arr(s) == [kind |-> "array", value |-> "", items |-> s]

\* `x instanceof Array`
instanceofArray(x) == x.kind = "array"

----------------------------------------------------------------------------
(* Caller-supplied strategies *)

\* item_comparator: (new Intl.Collator()).compare by default, or a collator
\* of sensitivity 'base'; only the zero outcome is consulted.
item_comparator(c, l, r) ==
    LET x == IF c = "base" THEN BaseOf(l) ELSE l
        y == IF c = "base" THEN BaseOf(r) ELSE r
    IN  IF x = y THEN 0 ELSE IF Rank(x) < Rank(y) THEN -1 ELSE 1

\* item_serializer: JSON.stringify of a string quotes it; String leaves it.
item_serializer(s, v) ==
    IF s = "JSON.stringify" THEN "\"" \o v \o "\"" ELSE v

----------------------------------------------------------------------------
(* Core.intersection *)

\* this.some(...) of notInOther: TRUE iff some element of thisList compares
\* equal to leftItem.
notInOther(leftItem, thisList, c) ==
    \E r \in 1..Len(thisList) : item_comparator(c, leftItem, thisList[r]) = 0

intersection(leftArray, rightArray, c) ==
    LET leftNotInRight == SelectSeq(leftArray, LAMBDA x : notInOther(x, rightArray, c))
        rightNotInLeft == SelectSeq(rightArray, LAMBDA x : notInOther(x, leftArray, c))
        is_shorter_than == Len(leftNotInRight) < Len(rightNotInLeft)
        scanned == IF is_shorter_than THEN leftNotInRight ELSE rightNotInLeft
        against == IF is_shorter_than THEN rightNotInLeft ELSE leftNotInRight
    IN  SelectSeq(scanned, LAMBDA x : notInOther(x, against, c))

----------------------------------------------------------------------------
(* Core.modalValues *)

\* Property names every object literal inherits from Object.prototype: the
\* `in` operator answers TRUE for them on `counts = {}`.
ObjectPrototypeKeys ==
    {"constructor", "toString", "toLocaleString", "valueOf", "hasOwnProperty",
     "isPrototypeOf", "propertyIsEnumerable", "__proto__"}

\* Math.floor( length / 2 ) + 1
majorityOf(length) == (length \div 2) + 1

\* counts is the sequence of the own entries of the object `counts`, in
\* insertion order (the order of Object.keys for keys that are no array index).
hasOwn(counts, key) == \E k \in 1..Len(counts) : counts[k].key = key

keyIn(counts, key) == hasOwn(counts, key) \/ key \in ObjectPrototypeKeys

entryOf(counts, key) == counts[CHOOSE k \in 1..Len(counts) : counts[k].key = key]

increment(counts, key) ==
    [k \in 1..Len(counts) |->
        IF counts[k].key = key
        THEN [counts[k] EXCEPT !.count = @ + 1]
        ELSE counts[k]]

\* .sort( by_original_position ): ascending `index`; the indexes are distinct.
RECURSIVE by_original_position(_)
by_original_position(entries) ==
    IF entries = <<>> THEN <<>>
    ELSE LET m == CHOOSE k \in 1..Len(entries) :
                    \A j \in 1..Len(entries) : entries[k].index <= entries[j].index
             rest == [j \in 1..(Len(entries) - 1) |->
                        IF j < m THEN entries[j] ELSE entries[j + 1]]
         IN  <<entries[m]>> \o by_original_position(rest)

\* The branch taken when the loop was not short-circuited.
keys_with_count_max(counts, count_max) ==
    LET kept   == SelectSeq(counts, LAMBDA e : e.count >= count_max)
        sorted == by_original_position(kept)
    IN  [k \in 1..Len(sorted) |-> sorted[k].value]

\* The for-loop from index i on: [modals, broke].  An inherited key has no own
\* entry: `++counts[ key ].count` then yields NaN on the inherited object, and
\* both comparisons with NaN are false.
RECURSIVE modalLoop(_, _, _, _, _)
modalLoop(arr, s, i, counts, count_max) ==
    IF i >= Len(arr)
    THEN [modals |-> keys_with_count_max(counts, count_max), broke |-> FALSE]
    ELSE LET key     == item_serializer(s, arr[i + 1])
             counts1 == IF ~keyIn(counts, key)
                        THEN Append(counts, [key |-> key, count |-> 0,
                                             index |-> i, value |-> arr[i + 1]])
                        ELSE counts
         IN  IF hasOwn(counts1, key)
             THEN LET counts2 == increment(counts1, key)
                      c       == entryOf(counts2, key).count
                  IN  IF c >= majorityOf(Len(arr))
                      THEN [modals |-> <<entryOf(counts2, key).value>>, broke |-> TRUE]
                      ELSE modalLoop(arr, s, i + 1, counts2,
                                     IF c > count_max THEN c ELSE count_max)
             ELSE modalLoop(arr, s, i + 1, counts1, count_max)

modalValues(arr, s) == modalLoop(arr, s, 0, <<>>, 0)

----------------------------------------------------------------------------
(* Filter.unique *)

\* Mutant of unique_filter: the scan starts at the element itself (o = n).
unique_filter_fromSelf(each, k, every, c) ==
    LET hits == {o \in k..(Len(every) - 1) :
                    item_comparator(c, each, every[o + 1]) = 0}
        higher_index == IF hits = {} THEN -1
                        ELSE CHOOSE o \in hits : \A p \in hits : o <= p
    IN  higher_index <= k

\* unique_filter( each, n, every ): k is the JavaScript index of `each`.
unique_filter(each, k, every, c) ==
    LET hits == {o \in (k + 1)..(Len(every) - 1) :
                    item_comparator(c, each, every[o + 1]) = 0}
        higher_index == IF hits = {} THEN -1
                        ELSE CHOOSE o \in hits : \A p \in hits : o <= p
    IN  higher_index <= k

\* every.filter( unique( c )): the elements the predicate keeps, in order.
RECURSIVE filterFrom(_, _, _)
filterFrom(every, k, c) ==
    IF k >= Len(every) THEN <<>>
    ELSE (IF unique_filter(every[k + 1], k, every, c) THEN <<every[k + 1]>> ELSE <<>>)
         \o filterFrom(every, k + 1, c)

filter_unique(every, c) == filterFrom(every, 0, c)

----------------------------------------------------------------------------
(* Reduce accumulators: ( result, each, n, every ) -> result *)

\* Mutant of allIndexesOf_accumulator: records the 1-based position.
allIndexesOf_oneBased(result, each, k, every, nd, c) ==
    LET upgraded ==
            IF ~instanceofArray(result)
            THEN (IF (k = 0 \/ k = Len(every) - 1)
                     /\ item_comparator(c, each, result.value) = 0
                  THEN <<k>> ELSE <<>>)
            ELSE result.items
    IN  Arr(IF item_comparator(c, each, nd) = 0 THEN Append(upgraded, k + 1) ELSE upgraded)

\* Mutant of allIndexesOf_accumulator: the accumulator is replaced by a
\* sequence only once there is an index to record.
allIndexesOf_lazyUpgrade(result, each, k, every, nd, c) ==
    LET upgraded ==
            IF ~instanceofArray(result)
            THEN (IF (k = 0 \/ k = Len(every) - 1)
                     /\ item_comparator(c, each, result.value) = 0
                  THEN <<k>> ELSE <<>>)
            ELSE result.items
        pushed == IF item_comparator(c, each, nd) = 0 THEN Append(upgraded, k) ELSE upgraded
    IN  IF ~instanceofArray(result) /\ pushed = <<>> THEN result ELSE Arr(pushed)

\* allIndexesOf_accumulator, the step findAllIndexes( nd, c ) returns.
allIndexesOf_accumulator(result, each, k, every, nd, c) ==
    LET upgraded ==
            IF ~instanceofArray(result)
            THEN (IF (k = 0 \/ k = Len(every) - 1)
                     /\ item_comparator(c, each, result.value) = 0
                  THEN <<k>> ELSE <<>>)
            ELSE result.items
    IN  Arr(IF item_comparator(c, each, nd) = 0 THEN Append(upgraded, k) ELSE upgraded)

\* Mutant of firstOrDefaultTo_accumulator: the branches of the conditional swapped.
firstOrDefaultTo_swapped(result, each, k, every) ==
    IF k = 0 THEN result ELSE Val(each)

firstOrDefaultTo_accumulator(result, each, k, every) ==
    IF k = 0 THEN Val(each) ELSE result

lastOrDefaultTo_accumulator(result, each, k, every) ==
    IF k = Len(every) - 1 THEN Val(each) ELSE result

\* Mutant of singleOrDefaultTo_throws: the length is judged by the index seen.
singleOrDefaultTo_throwsPastFirst(result, each, k, every) == k > 0

\* TRUE iff singleOrDefaultTo_accumulator throws its RangeError.
singleOrDefaultTo_throws(result, each, k, every) == Len(every) > 1

singleOrDefaultTo_accumulator(result, each, k, every) ==
    IF k = 0 THEN Val(each) ELSE result

----------------------------------------------------------------------------
(* The host fold: Array.prototype.reduce ("left") and reduceRight ("right") *)

Directions == {"left", "right"}

Accumulators == {"findAllIndexes", "firstOrDefaultTo", "lastOrDefaultTo", "singleOrDefaultTo"}

\* The initialValue argument: absent, a bare value, or (findAllIndexes) [].
Seeds(stepName) ==
    {NoValue} \cup {Val(d) : d \in Words \cup {NULL}}
    \cup (IF stepName = "findAllIndexes" THEN {Arr(<<>>)} ELSE {})

\* The accumulator and the index of the first callback invocation.
firstAcc(a, sd, d) ==
    IF sd.kind # "none" THEN sd
    ELSE Val(IF d = "left" THEN a[1] ELSE a[Len(a)])

firstIndex(a, sd, d) ==
    IF d = "left" THEN (IF sd.kind # "none" THEN 0 ELSE 1)
    ELSE (IF sd.kind # "none" THEN Len(a) - 1 ELSE Len(a) - 2)

nextIndex(k, d) == IF d = "left" THEN k + 1 ELSE k - 1

----------------------------------------------------------------------------
(* The state machine: one call at a time *)

Init ==
    /\ pc = "idle"
    /\ op = "none"
    /\ array = <<>>
    /\ other = <<>>
    /\ cmp = "collator"
    /\ ser = "JSON.stringify"
    /\ needle = NULL
    /\ seed = NoValue
    /\ dir = "left"
    /\ n = 0
    /\ acc = NoValue
    /\ calls = 0
    /\ ret = NoValue
    /\ err = "none"

\* ArrayToolbox.Core.intersection( l, r, c )
Call_intersection ==
    /\ pc = "idle"
    /\ \E l \in SeqsUpTo(Words, MaxPairLen), r \in SeqsUpTo(Words, MaxPairLen),
          c \in Comparators :
          /\ array' = l
          /\ other' = r
          /\ cmp' = c
          /\ ret' = Arr(intersection(l, r, c))
    /\ op' = "intersection"
    /\ pc' = "done"
    /\ UNCHANGED <<ser, needle, seed, dir, n, acc, calls, err>>

\* ArrayToolbox.Core.modalValues( a, s )
Call_modalValues ==
    /\ pc = "idle"
    /\ \E a \in SeqsUpTo(Words, MaxLen), s \in Serializers :
          /\ array' = a
          /\ ser' = s
          /\ ret' = Arr(modalValues(a, s).modals)
    /\ op' = "modalValues"
    /\ pc' = "done"
    /\ UNCHANGED <<other, cmp, needle, seed, dir, n, acc, calls, err>>

\* a.filter( ArrayToolbox.Filter.unique( c ))
Call_filter_unique ==
    /\ pc = "idle"
    /\ \E a \in SeqsUpTo(Words, MaxLen), c \in Comparators :
          /\ array' = a
          /\ cmp' = c
          /\ ret' = Arr(filter_unique(a, c))
    /\ op' = "unique"
    /\ pc' = "done"
    /\ UNCHANGED <<other, ser, needle, seed, dir, n, acc, calls, err>>

\* a.reduce( step, sd ) / a.reduceRight( step, sd ) begins; an empty array
\* with no initial value is the host's TypeError.
Call_reduce ==
    /\ pc = "idle"
    /\ \E a \in SeqsUpTo(Words, MaxFoldLen), stepName \in Accumulators, d \in Directions,
          nd \in Words, c \in Comparators :
        \E sd \in Seeds(stepName) :
          /\ stepName # "findAllIndexes" => (nd = WordPool[1] /\ c = "collator")
          /\ array' = a
          /\ op' = stepName
          /\ dir' = d
          /\ needle' = nd
          /\ cmp' = c
          /\ seed' = sd
          /\ IF a = <<>> /\ sd.kind = "none"
             THEN /\ pc' = "done"
                  /\ err' = "TypeError"
                  /\ acc' = NoValue
                  /\ n' = 0
             ELSE /\ pc' = "fold"
                  /\ err' = "none"
                  /\ acc' = firstAcc(a, sd, d)
                  /\ n' = firstIndex(a, sd, d)
    /\ calls' = 0
    /\ ret' = NoValue
    /\ UNCHANGED <<other, ser>>

\* The host has a further element to hand to the step.
Pending(stepName) ==
    /\ pc = "fold"
    /\ op = stepName
    /\ n >= 0
    /\ n < Len(array)

Advance ==
    /\ n' = nextIndex(n, dir)
    /\ calls' = calls + 1
    /\ UNCHANGED <<op, array, other, cmp, ser, needle, seed, dir, ret>>

Step_findAllIndexes ==
    /\ Pending("findAllIndexes")
    /\ acc' = allIndexesOf_accumulator(acc, array[n + 1], n, array, needle, cmp)
    /\ UNCHANGED <<pc, err>>
    /\ Advance

Step_firstOrDefaultTo ==
    /\ Pending("firstOrDefaultTo")
    /\ acc' = firstOrDefaultTo_accumulator(acc, array[n + 1], n, array)
    /\ UNCHANGED <<pc, err>>
    /\ Advance

Step_lastOrDefaultTo ==
    /\ Pending("lastOrDefaultTo")
    /\ acc' = lastOrDefaultTo_accumulator(acc, array[n + 1], n, array)
    /\ UNCHANGED <<pc, err>>
    /\ Advance

Step_singleOrDefaultTo ==
    /\ Pending("singleOrDefaultTo")
    /\ IF singleOrDefaultTo_throws(acc, array[n + 1], n, array)
       THEN /\ pc' = "done"
            /\ err' = "RangeError"
            /\ acc' = NoValue
       ELSE /\ pc' = pc
            /\ err' = err
            /\ acc' = singleOrDefaultTo_accumulator(acc, array[n + 1], n, array)
    /\ Advance

\* The fold has no further element: it returns the accumulator.
FoldReturn ==
    /\ pc = "fold"
    /\ ~(n >= 0 /\ n < Len(array))
    /\ pc' = "done"
    /\ ret' = acc
    /\ UNCHANGED <<op, array, other, cmp, ser, needle, seed, dir, n, acc, calls, err>>

\* The caller has the result (or the error); the next call may begin.
Return ==
    /\ pc = "done"
    /\ pc' = "idle"
    /\ op' = "none"
    /\ array' = <<>>
    /\ other' = <<>>
    /\ cmp' = "collator"
    /\ ser' = "JSON.stringify"
    /\ needle' = NULL
    /\ seed' = NoValue
    /\ dir' = "left"
    /\ n' = 0
    /\ acc' = NoValue
    /\ calls' = 0
    /\ ret' = NoValue
    /\ err' = "none"

Next ==
    \/ Call_intersection
    \/ Call_modalValues
    \/ Call_filter_unique
    \/ Call_reduce
    \/ Step_findAllIndexes
    \/ Step_firstOrDefaultTo
    \/ Step_lastOrDefaultTo
    \/ Step_singleOrDefaultTo
    \/ FoldReturn
    \/ Return

Spec == Init /\ [][Next]_vars

----------------------------------------------------------------------------
(* Vocabulary of the properties *)

\* The elements of a finite set of integers, in ascending order.
RECURSIVE Ascending(_)
Ascending(S) ==
    IF S = {} THEN <<>>
    ELSE LET m == CHOOSE x \in S : \A y \in S : x <= y
         IN  <<m>> \o Ascending(S \ {m})

\* Number of occurrences of v in s.
Occurrences(s, v) == Cardinality({i \in 1..Len(s) : s[i] = v})

\* Number of elements of s that compare equal to v under comparator c.
EqualTo(s, v, c) == Cardinality({i \in 1..Len(s) : item_comparator(c, s[i], v) = 0})

Smaller(x, y) == IF x <= y THEN x ELSE y

NoRepeat(s) == \A i, j \in 1..Len(s) : s[i] = s[j] => i = j

Returned(name) == pc = "done" /\ op = name /\ err = "none"

\* The values of s occurring the maximum number of times, each once, in the
\* order of their first occurrence.
ModesOf(s) ==
    LET firsts == {i \in 1..Len(s) :
                     /\ \A j \in 1..(i - 1) : s[j] # s[i]
                     /\ \A j \in 1..Len(s) : Occurrences(s, s[j]) <= Occurrences(s, s[i])}
        order  == Ascending(firsts)
    IN  [k \in 1..Len(order) |-> s[order[k]]]

\* The elements of s with no later element comparing equal, in order.
LastOccurrences(s, c) ==
    LET lasts == {i \in 1..Len(s) :
                    \A j \in (i + 1)..Len(s) : item_comparator(c, s[i], s[j]) # 0}
        order == Ascending(lasts)
    IN  [k \in 1..Len(order) |-> s[order[k]]]

\* The JavaScript indexes of s whose element compares equal to nd, ascending.
MatchingIndexes(s, nd, c) ==
    Ascending({i \in 0..(Len(s) - 1) : item_comparator(c, s[i + 1], nd) = 0})

----------------------------------------------------------------------------
(* The claims *)

\* C1: modalValues(S), for an injective serializer, is exactly the values of
\* S whose occurrence count is the maximum, each once, in the order of their
\* first occurrence in S, whether the scan broke early or ran to the end.
C1_ModalValuesAreTheModes ==
    Returned("modalValues") => ret.items = ModesOf(array)

\* C2: intersection(L, R) and intersection(R, L) hold the same elements with
\* the same multiplicities.
C2_IntersectionCommutes ==
    Returned("intersection") =>
        \A v \in Words :
            EqualTo(ret.items, v, cmp) = EqualTo(intersection(other, array, cmp), v, cmp)

\* C3: intersection(left, right) is the multiset intersection: for every
\* value v the result holds min(#v in left, #v in right) elements equal to v.
C3_IntersectionIsMultisetMin ==
    Returned("intersection") =>
        \A v \in Words :
            EqualTo(ret.items, v, cmp)
                = Smaller(EqualTo(array, v, cmp), EqualTo(other, v, cmp))

\* C4: S.filter(unique(cmp)) keeps the element at index i iff no element at a
\* greater index compares equal to it: exactly the last occurrence of each
\* equivalence class, in the original relative order, no two of them equal.
C4_UniqueKeepsLastOccurrences ==
    Returned("unique") =>
        /\ ret.items = LastOccurrences(array, cmp)
        /\ \A i, j \in 1..Len(ret.items) :
              item_comparator(cmp, ret.items[i], ret.items[j]) = 0 => i = j

C4_Witness ==
    /\ Returned("unique")
    /\ cmp = "base"
    /\ Len(array) = MaxLen
    /\ Len(ret.items) = 2
    /\ array[1] = "a" /\ array[2] = "A" /\ ret.items[Len(ret.items)] = "A"

\* C5: under a left-to-right fold, seeded or not, firstOrDefaultTo() yields
\* the first and lastOrDefaultTo() the last element of a non-empty sequence;
\* over an empty sequence with seed d both yield d.
C5_LeftFoldFirstAndLast ==
    (pc = "done" /\ dir = "left" /\ op \in {"firstOrDefaultTo", "lastOrDefaultTo"}) =>
        /\ (array # <<>> /\ op = "firstOrDefaultTo") =>
              (err = "none" /\ ret = Val(array[1]))
        /\ (array # <<>> /\ op = "lastOrDefaultTo") =>
              (err = "none" /\ ret = Val(array[Len(array)]))
        /\ (array = <<>> /\ seed.kind = "value") => (err = "none" /\ ret = seed)

C5_Witness ==
    /\ Returned("firstOrDefaultTo")
    /\ dir = "left"
    /\ seed = Val(NULL)
    /\ Len(array) = MaxFoldLen
    /\ array[1] # array[Len(array)]
    /\ ret = Val(array[1])

\* C6: a right-to-left fold of a non-empty sequence with the firstOrDefaultTo()
\* step yields the last element, and with the lastOrDefaultTo() step the first.
C6_RightFoldMirrors ==
    (pc = "done" /\ dir = "right" /\ array # <<>>) =>
        /\ op = "firstOrDefaultTo" => ret = Val(array[Len(array)])
        /\ op = "lastOrDefaultTo" => ret = Val(array[1])

\* C7: folding a sequence longer than 1 with the singleOrDefaultTo() step ends
\* in a range error and returns no value, in either direction, seeded or not;
\* a sequence of length 1 yields its only element and an empty sequence with
\* seed d yields d, without error.
C7_SingleOrRangeError ==
    /\ (pc = "fold" /\ op = "singleOrDefaultTo" /\ Len(array) > 1) =>
          (calls = 0 /\ Pending("singleOrDefaultTo"))
    /\ (pc = "done" /\ op = "singleOrDefaultTo") =>
          /\ Len(array) > 1 => (err = "RangeError" /\ ret = NoValue)
          /\ Len(array) = 1 => (err = "none" /\ ret = Val(array[1]))
          /\ (array = <<>> /\ seed.kind = "value") => (err = "none" /\ ret = seed)

C7_Witness ==
    /\ pc = "done"
    /\ op = "singleOrDefaultTo"
    /\ dir = "right"
    /\ seed = NoValue
    /\ Len(array) = 2
    /\ err = "RangeError"

\* C8: a left-to-right fold of S with the findAllIndexes(needle, cmp) step and
\* seed [] yields exactly the indexes i with cmp(S[i], needle) = 0, each once,
\* ascending.
C8_FindAllIndexesFromEmptySeed ==
    (Returned("findAllIndexes") /\ dir = "left" /\ seed = Arr(<<>>)) =>
        ret = Arr(MatchingIndexes(array, needle, cmp))

C8_Witness ==
    /\ Returned("findAllIndexes")
    /\ dir = "left"
    /\ seed = Arr(<<>>)
    /\ Len(array) = MaxFoldLen
    /\ ret = Arr(<<0, MaxFoldLen - 1>>)

\* C9: in a fold driven by the findAllIndexes step the accumulator turns from
\* 'not a sequence' into 'a sequence' only at the first step invocation: every
\* step invocation leaves a sequence, so it is a sequence ever after.
C9_UpgradeOnlyAtFirstStep ==
    [][(op = "findAllIndexes" /\ pc = "fold" /\ calls' = calls + 1) =>
          /\ instanceofArray(acc')
          /\ ~instanceofArray(acc) => calls = 0]_vars

C9_Witness ==
    /\ op = "findAllIndexes"
    /\ pc = "fold"
    /\ seed.kind = "value"
    /\ calls = 2
    /\ acc = Arr(<<>>)

\* C10: in a fold driven by the findAllIndexes(needle) step, in either
\* direction, over any length, seeded with a sequence, a bare value or
\* nothing, the accumulated index sequence never holds an index twice.
C10_NoIndexRecordedTwice ==
    (op = "findAllIndexes" /\ pc \in {"fold", "done"}) => NoRepeat(acc.items)

====
